---- MODULE Spec2Model ----
(***************************************************************************)
(* MultiForm 0.1 (static/js/multiform.js): replicating a block of form     *)
(* fields.  The document is a heap of DOM nodes; every DOM call the source *)
(* makes is an operator from a heap to a heap, so that allocation, sharing *)
(* and mutation of nodes are visible.  Two containers live on one page, in *)
(* document order, and each may be turned into a multi-record form.        *)
(***************************************************************************)
EXTENDS Integers, Sequences, FiniteSets, TLC

VARIABLES heap,        \* the DOM: node number -> node
          template,    \* form -> the Template object of $.fn.multiForm
          surface,     \* form -> the MultiformContainer object
          bindings,    \* click handlers registered by $("#multiform-add").click
          setUp,       \* forms on which multiForm has been called, in call order
          clicks,      \* form -> number of activations of its own add button
          prefixLog,   \* form -> the local `prefix` of each createInstance call
          instanceLog, \* form -> the wrapper returned by each createInstance call
          design,      \* form -> the design-time markup of its container
          designNodes, \* form -> the design-time child nodes of its container
          captured     \* form -> the heap and this.nodes when new Template returned

vars == <<heap, template, surface, bindings, setUp, clicks, prefixLog,
          instanceLog, design, designNodes, captured>>

\* Bound of the model: activations of one add button.
MaxClicks == 2

Forms == {1, 2}

-----------------------------------------------------------------------------
(* JavaScript values that reach a string concatenation in the source.      *)

Str(s) == [type |-> "string", val |-> s]

Null == [type |-> "null", val |-> ""]

Undefined == [type |-> "undefined", val |-> ""]

\* ToString of the operand of `+` (lines 87, 88, 91, 96, 99, 146).
JSToString(v) ==
  CASE v.type = "string" -> v.val
    [] v.type = "null" -> "null"
    [] v.type = "undefined" -> "undefined"

\* ToBoolean of the operand of `if` (lines 95, 98, 145).
Truthy(v) == v.type = "string" /\ v.val # ""

Digits == <<"0", "1", "2", "3", "4", "5", "6", "7", "8", "9">>

RECURSIVE NumberToString(_)
\* Number.prototype.toString of a non-negative integer (line 148).
NumberToString(n) ==
  IF n < 10 THEN Digits[n + 1]
  ELSE NumberToString(n \div 10) \o Digits[(n % 10) + 1]

-----------------------------------------------------------------------------
(* The DOM calls of the source.                                            *)

NoAttributes == <<>>

NewNode(tag, text) ==
  [nodeName |-> tag, attributes |-> NoAttributes, expando |-> NoAttributes,
   nodeValue |-> text, childNodes |-> <<>>]

\* document.createElement (lines 78, 142, 170, 171): a fresh, parentless node.
createElement(h, tag) ==
  [heap |-> Append(h, NewNode(tag, "")), node |-> Len(h) + 1]

\* Element.setAttribute (lines 82, 91, 174-176).
setAttribute(h, n, a, v) ==
  [h EXCEPT ![n].attributes = (a :> v) @@ @]

\* Element.getAttribute (line 91): null when the attribute is absent.
getAttribute(h, n, a) ==
  IF a \in DOMAIN h[n].attributes THEN Str(h[n].attributes[a]) ELSE Null

\* Element.id read (lines 88, 95, 96): reflects the id attribute, "" if absent.
idGet(h, n) ==
  IF "id" \in DOMAIN h[n].attributes THEN Str(h[n].attributes["id"]) ELSE Str("")

\* Element.id write (lines 88, 96).
idSet(h, n, v) == setAttribute(h, n, "id", v)

\* The element interfaces that declare a `name` IDL attribute reflecting the
\* name content attribute.  HTMLDataListElement, HTMLOptGroupElement,
\* HTMLDivElement, HTMLLabelElement and HTMLSpanElement declare none.
NAME_REFLECTING ==
  {"A", "BUTTON", "EMBED", "FIELDSET", "FORM", "FRAME", "IFRAME", "IMG",
   "INPUT", "MAP", "META", "OBJECT", "OUTPUT", "PARAM", "SELECT", "SLOT",
   "TEXTAREA"}

\* `node.name` read (lines 87, 98, 99): the reflected attribute where the
\* interface has one, otherwise an own property of the object, or undefined.
nameGet(h, n) ==
  IF h[n].nodeName \in NAME_REFLECTING
  THEN IF "name" \in DOMAIN h[n].attributes
       THEN Str(h[n].attributes["name"]) ELSE Str("")
  ELSE IF "name" \in DOMAIN h[n].expando
       THEN Str(h[n].expando["name"]) ELSE Undefined

\* `node.name = v` (lines 87, 99): sets the attribute where the interface
\* reflects it, otherwise creates an own property and leaves the markup alone.
nameSet(h, n, v) ==
  IF h[n].nodeName \in NAME_REFLECTING
  THEN setAttribute(h, n, "name", v)
  ELSE [h EXCEPT ![n].expando = ("name" :> v) @@ @]

\* The nodes that have c among their children.
ParentsOf(h, c) ==
  {p \in 1..Len(h) : \E i \in 1..Len(h[p].childNodes) : h[p].childNodes[i] = c}

\* Node.removeChild (line 132).
removeChild(h, p, c) ==
  [h EXCEPT ![p].childNodes = SelectSeq(@, LAMBDA x : x # c)]

\* Node.appendChild (lines 111, 153, 177, 178, 185): a node that has a parent
\* is first removed from it, then becomes the last child of p.
appendChild(h, p, c) ==
  LET parents == ParentsOf(h, c)
      detached == IF parents = {} THEN h
                  ELSE removeChild(h, CHOOSE q \in parents : TRUE, c)
  IN [detached EXCEPT ![p].childNodes = Append(@, c)]

RECURSIVE appendAll(_, _, _, _)
\* The loops of lines 110-112 and 152-154: append nodes[i..] to p in order.
appendAll(h, p, nodes, i) ==
  IF i > Len(nodes) THEN h
  ELSE appendAll(appendChild(h, p, nodes[i]), p, nodes, i + 1)

RECURSIVE cloneNode(_, _)
RECURSIVE cloneChildren(_, _, _, _)
\* Node.cloneNode(true) (lines 104, 131): a fresh parentless copy of the node,
\* its attributes and text, and of every descendant; own properties are not copied.
cloneNode(h, n) ==
  LET copy == Len(h) + 1
      h1 == Append(h, [NewNode(h[n].nodeName, h[n].nodeValue)
                         EXCEPT !.attributes = h[n].attributes])
  IN [heap |-> cloneChildren(h1, h[n].childNodes, 1, copy), node |-> copy]

cloneChildren(h, kids, i, parent) ==
  IF i > Len(kids) THEN h
  ELSE LET c == cloneNode(h, kids[i])
       IN cloneChildren(appendChild(c.heap, parent, c.node), kids, i + 1, parent)

RECURSIVE Preorder(_, _)
RECURSIVE PreorderAll(_, _, _)
\* The subtree of n in tree order, n first.
Preorder(h, n) == <<n>> \o PreorderAll(h, h[n].childNodes, 1)

PreorderAll(h, kids, i) ==
  IF i > Len(kids) THEN <<>>
  ELSE Preorder(h, kids[i]) \o PreorderAll(h, kids, i + 1)

BodyNode == 1

ContainerNode(f) == 1 + f

\* $("#multiform-add") (line 204): jQuery answers an id selector with
\* document.getElementById, the first element in tree order with that id.
\* The result is the sequence of matched elements (empty or one element).
jQueryById(h, id) ==
  LET hits == SelectSeq(Preorder(h, BodyNode),
                        LAMBDA n : "id" \in DOMAIN h[n].attributes
                                   /\ h[n].attributes["id"] = id)
  IN IF hits = <<>> THEN <<>> ELSE <<hits[1]>>

-----------------------------------------------------------------------------
(* cloneFormNodes (lines 65-116).                                          *)

FORM_ELEMENTS == {"DATALIST", "INPUT", "OPTGROUP", "SELECT", "TEXTAREA"}

\* A copy loop that copies nothing.
CopyNoAttributes(h, n, nn) == h

\* Lines 81-83: every attribute of the original is set on the new node.
CopyAttributes(h, n, nn) ==
  [h EXCEPT ![nn].attributes = h[n].attributes @@ @]

\* Lines 87-88: fields get the prefix on name and id, whatever they hold.
PrefixField(h, n, nn, prefix) ==
  LET h1 == nameSet(h, nn, prefix \o JSToString(nameGet(h, n)))
  IN idSet(h1, nn, prefix \o JSToString(idGet(h1, n)))

\* A label branch that skips a label whose for is absent or empty.
PrefixLabelIfSet(h, n, nn, prefix) ==
  IF Truthy(getAttribute(h, n, "for"))
  THEN setAttribute(h, nn, "for", prefix \o JSToString(getAttribute(h, n, "for")))
  ELSE h

\* Line 91: labels get the prefix on for, whatever getAttribute returns.
PrefixLabel(h, n, nn, prefix) ==
  setAttribute(h, nn, "for", prefix \o JSToString(getAttribute(h, n, "for")))

\* A generic branch without the guards of lines 95 and 98.
PrefixOtherAlways(h, n, nn, prefix) ==
  LET h1 == idSet(h, nn, prefix \o JSToString(idGet(h, n)))
  IN nameSet(h1, nn, prefix \o JSToString(nameGet(h1, n)))

\* Lines 95-100: any other element gets the prefix on a truthy id or name.
PrefixOther(h, n, nn, prefix) ==
  LET h1 == IF Truthy(idGet(h, n))
            THEN idSet(h, nn, prefix \o JSToString(idGet(h, n))) ELSE h
  IN IF Truthy(nameGet(h1, n))
     THEN nameSet(h1, nn, prefix \o JSToString(nameGet(h1, n))) ELSE h1

\* Lines 78-101: the clone of one element, without its children.
CloneElement(h, n, prefix) ==
  LET made == createElement(h, h[n].nodeName)
      nn == made.node
      h2 == CopyAttributes(made.heap, n, nn)
      h3 == IF h2[n].nodeName \in FORM_ELEMENTS THEN PrefixField(h2, n, nn, prefix)
            ELSE IF h2[n].nodeName = "LABEL" THEN PrefixLabel(h2, n, nn, prefix)
            ELSE PrefixOther(h2, n, nn, prefix)
  IN [heap |-> h3, node |-> nn]

\* A #text "clone" that hands out the original node.
ShareText(h, n) == [heap |-> h, node |-> n]

\* Line 104: the clone of a #text node.
CloneText(h, n) == cloneNode(h, n)

RECURSIVE cloneFormNodes(_, _, _)
RECURSIVE CloneLoop(_, _, _, _, _)
\* Lines 72-116: returns the new heap and the array newNodes.
cloneFormNodes(h, nodes, prefix) == CloneLoop(h, nodes, prefix, 1, <<>>)

\* One pass of the loop of line 75, for nodes[i], then the rest.
CloneLoop(h, nodes, prefix, i, newNodes) ==
  IF i > Len(nodes) THEN [heap |-> h, nodes |-> newNodes]
  ELSE LET n == nodes[i]
           made == IF h[n].nodeName # "#text"
                   THEN CloneElement(h, n, prefix) ELSE CloneText(h, n)
           h1 == made.heap
           h2 == IF Len(h1[n].childNodes) > 0
                 THEN LET sub == cloneFormNodes(h1, h1[n].childNodes, prefix)
                      IN appendAll(sub.heap, made.node, sub.nodes, 1)
                 ELSE h1
       IN CloneLoop(h2, nodes, prefix, i + 1, Append(newNodes, made.node))

-----------------------------------------------------------------------------
(* Template (lines 124-161).                                               *)

NoTemplate == [nodes |-> <<>>, prefix |-> Undefined, currentIteration |-> 0]

\* A capture that copies the first child and leaves the original in place.
CaptureChildKeep(h, baseObject) == cloneNode(h, h[baseObject].childNodes[1])

\* Lines 131-132: copy the first child of baseObject and remove the original.
CaptureChild(h, baseObject) ==
  LET first == h[baseObject].childNodes[1]
      c == cloneNode(h, first)
  IN [heap |-> removeChild(c.heap, baseObject, first), node |-> c.node]

RECURSIVE CaptureLoop(_, _, _, _, _)
\* The loop of line 130, nodeCount being read once before the first pass.
CaptureLoop(h, baseObject, nodeIndex, nodeCount, nodes) ==
  IF nodeIndex >= nodeCount THEN [heap |-> h, nodes |-> nodes]
  ELSE LET c == CaptureChild(h, baseObject)
       IN CaptureLoop(c.heap, baseObject, nodeIndex + 1, nodeCount,
                      Append(nodes, c.node))

\* new Template(baseObject, prefix) (lines 124-133).
Template(h, baseObject, prefix) ==
  LET r == CaptureLoop(h, baseObject, 0, Len(h[baseObject].childNodes), <<>>)
  IN [heap |-> r.heap,
      template |-> [nodes |-> r.nodes, prefix |-> prefix, currentIteration |-> 0]]

\* Lines 140-148: "[<prefix>_]<iteration>-".
InstancePrefix(t) ==
  (IF Truthy(t.prefix) THEN JSToString(t.prefix) \o "_" ELSE "")
    \o NumberToString(t.currentIteration) \o "-"

\* A counter that is left as it was.
NoIncrement(n) == n

\* Line 157.
Increment(n) == n + 1

\* Template.createInstance (lines 139-160): the new heap, the Template after
\* the call, the returned wrapper and the prefix it was built with.
createInstance(h, t) ==
  LET made == createElement(h, "DIV")
      prefix == InstancePrefix(t)
      r == cloneFormNodes(made.heap, t.nodes, prefix)
  IN [heap |-> appendAll(r.heap, made.node, r.nodes, 1),
      template |-> [t EXCEPT !.currentIteration = Increment(@)],
      instance |-> made.node,
      prefix |-> prefix]

-----------------------------------------------------------------------------
(* MultiformContainer (lines 168-187).                                     *)

NoSurface == [container |-> 0, controlsContainer |-> 0, addButton |-> 0]

\* new MultiformContainer(containerObject) (lines 168-178).  innerHTML = 'Add'
\* gives the button one #text child.
MultiformContainer(h, containerObject) ==
  LET cc == createElement(h, "DIV")
      ab == createElement(cc.heap, "DIV")
      tx == Len(ab.heap) + 1
      h1 == appendChild(Append(ab.heap, NewNode("#text", "Add")), ab.node, tx)
      h2 == setAttribute(h1, ab.node, "type", "button")
      h3 == setAttribute(h2, ab.node, "class", "btn btn-success")
      h4 == setAttribute(h3, ab.node, "id", "multiform-add")
      h5 == appendChild(h4, cc.node, ab.node)
  IN [heap |-> appendChild(h5, containerObject, cc.node),
      surface |-> [container |-> containerObject,
                   controlsContainer |-> cc.node, addButton |-> ab.node]]

\* A container that inserts the child before its controls instead.
ContainerPrependChild(h, s, child) ==
  [h EXCEPT ![s.container].childNodes = <<child>> \o @]

\* MultiformContainer.appendChild (lines 184-186).
ContainerAppendChild(h, s, child) == appendChild(h, s.container, child)

-----------------------------------------------------------------------------
(* The page before multiForm is called: design-time markup.                *)

\* Markup as a value: an element with attributes and children, or a text.
Elem(tag, attrs, kids) ==
  [nodeName |-> tag, attributes |-> attrs, nodeValue |-> "", childNodes |-> kids]

Text(t) ==
  [nodeName |-> "#text", attributes |-> NoAttributes, nodeValue |-> t,
   childNodes |-> <<>>]

IdChoices == {NoAttributes, "id" :> "", "id" :> "e"}

NameChoices == {NoAttributes, "name" :> "", "name" :> "e"}

ForChoices == {NoAttributes, "for" :> "", "for" :> "e"}

\* One element, of every class of line 85-101, with its id and name absent,
\* empty or set, and one attribute that is never rewritten.
SingleDesigns ==
  {<<Elem(tag, i @@ n @@ ("class" :> "c"), <<>>)>> :
      tag \in {"INPUT", "DATALIST", "DIV", "BUTTON"},
      i \in IdChoices, n \in NameChoices}
  \cup {<<Elem("LABEL", f @@ i, <<Text("E")>>)>> :
          f \in ForChoices, i \in {NoAttributes, "id" :> "e"}}

Email == ("id" :> "email") @@ ("name" :> "email")

NestedDesigns ==
  { \* div > (label[for=email], input[id=email, name=email])
    <<Elem("DIV", NoAttributes,
           <<Elem("LABEL", "for" :> "email", <<Text("Email")>>),
             Elem("INPUT", Email @@ ("type" :> "text"), <<>>)>>)>>,
    \* several top-level nodes, a text among them
    <<Text("Address"), Elem("LABEL", "for" :> "e", <<>>),
      Elem("TEXTAREA", ("id" :> "e") @@ ("name" :> "e"), <<Text("t")>>)>>,
    \* a label and a field that carry nothing
    <<Elem("LABEL", NoAttributes, <<>>), Elem("INPUT", NoAttributes, <<>>)>>,
    \* a label for a generic element two levels down
    <<Elem("LABEL", "for" :> "x", <<>>),
      Elem("DIV", NoAttributes,
           <<Elem("SPAN", ("id" :> "x") @@ ("class" :> "c"), <<Text("s")>>)>>)>>,
    \* an empty for and an empty id on a generic element
    <<Elem("LABEL", "for" :> "", <<>>), Elem("DIV", "id" :> "", <<>>)>>,
    \* a label whose own id looks like an instance identifier
    <<Elem("LABEL", ("id" :> "1-e") @@ ("for" :> "e"), <<>>),
      Elem("INPUT", "id" :> "e", <<>>)>>,
    \* select > optgroup[name]
    <<Elem("SELECT", ("id" :> "s") @@ ("name" :> "s"),
           <<Elem("OPTGROUP", ("name" :> "g") @@ ("label" :> "G"), <<>>)>>)>>,
    \* fieldset[name] > input
    <<Elem("FIELDSET", ("name" :> "fs") @@ ("id" :> "fs"),
           <<Elem("INPUT", "name" :> "q", <<>>)>>)>> }

Designs == SingleDesigns \cup NestedDesigns

\* The second form of the page.
OtherDesigns ==
  { <<Elem("LABEL", "for" :> "email", <<>>), Elem("INPUT", Email, <<>>)>>,
    <<Elem("DIV", "id" :> "row", <<Elem("INPUT", NoAttributes, <<>>)>>)>> }

\* The `prefix` argument of multiForm: omitted, empty or a word.
Seeds == {Undefined, Str(""), Str("addr")}

RECURSIVE Parse(_, _, _, _)
RECURSIVE ParseNode(_, _, _)
\* The nodes of markup trees[i..], in order, as the last children of parent.
Parse(h, parent, trees, i) ==
  IF i > Len(trees) THEN h
  ELSE Parse(ParseNode(h, parent, trees[i]), parent, trees, i + 1)

ParseNode(h, parent, tree) ==
  LET n == Len(h) + 1
      h1 == Append(h, [NewNode(tree.nodeName, tree.nodeValue)
                         EXCEPT !.attributes = tree.attributes])
  IN Parse(appendChild(h1, parent, n), n, tree.childNodes, 1)

RECURSIVE TreeOf(_, _)
\* The markup of the subtree of n.
TreeOf(h, n) ==
  [nodeName |-> h[n].nodeName, attributes |-> h[n].attributes,
   nodeValue |-> h[n].nodeValue,
   childNodes |-> [i \in 1..Len(h[n].childNodes) |-> TreeOf(h, h[n].childNodes[i])]]

TreesOf(h, nodes) == [i \in 1..Len(nodes) |-> TreeOf(h, nodes[i])]

\* body > (container 1, container 2), each holding its design-time markup.
Page(d1, d2) ==
  LET h0 == <<[NewNode("BODY", "") EXCEPT !.childNodes = <<2, 3>>],
              NewNode("DIV", ""), NewNode("DIV", "")>>
  IN Parse(Parse(h0, ContainerNode(1), d1, 1), ContainerNode(2), d2, 1)

Init ==
  \E d1 \in Designs, d2 \in OtherDesigns :
    /\ heap = Page(d1, d2)
    /\ design = (1 :> d1) @@ (2 :> d2)
    /\ designNodes = [f \in Forms |-> Page(d1, d2)[ContainerNode(f)].childNodes]
    /\ template = [f \in Forms |-> NoTemplate]
    /\ surface = [f \in Forms |-> NoSurface]
    /\ bindings = <<>>
    /\ setUp = <<>>
    /\ clicks = [f \in Forms |-> 0]
    /\ prefixLog = [f \in Forms |-> <<>>]
    /\ instanceLog = [f \in Forms |-> <<>>]
    /\ captured = [f \in Forms |-> [heap |-> <<>>, nodes |-> <<>>]]

-----------------------------------------------------------------------------
(* $.fn.multiForm (lines 194-209) and the click handler (lines 204-206).   *)

\* container.appendChild(template.createInstance()) (lines 201, 205) for
\* form f, on w = the heap, the Template objects and the two logs.
AddInstance(w, f, s) ==
  LET c == createInstance(w.heap, w.template[f])
  IN [heap |-> ContainerAppendChild(c.heap, s, c.instance),
      template |-> [w.template EXCEPT ![f] = c.template],
      prefixLog |-> [w.prefixLog EXCEPT ![f] = Append(@, c.prefix)],
      instanceLog |-> [w.instanceLog EXCEPT ![f] = Append(@, c.instance)]]

World == [heap |-> heap, template |-> template, prefixLog |-> prefixLog,
          instanceLog |-> instanceLog]

IsSetUp(f) == \E i \in 1..Len(setUp) : setUp[i] = f

\* multiForm up to line 201: the Template, the MultiformContainer and the
\* first instance.
Build(f, prefix) ==
  LET t == Template(heap, ContainerNode(f), prefix)
      c == MultiformContainer(t.heap, ContainerNode(f))
  IN [world |-> AddInstance([World EXCEPT !.heap = c.heap,
                                          !.template[f] = t.template],
                            f, c.surface),
      surface |-> c.surface,
      captured |-> [heap |-> t.heap, nodes |-> t.template.nodes]]

\* Lines 204-206: the handler of form f is bound to each matched element.
Bind(h, f) ==
  LET found == jQueryById(h, "multiform-add")
  IN [i \in 1..Len(found) |-> [element |-> found[i], form |-> f]]

\* $(container f).multiForm(prefix), called once per container.
multiForm(f, prefix) ==
  /\ ~IsSetUp(f)
  /\ \E b \in {Build(f, prefix)} :
        /\ heap' = b.world.heap
        /\ template' = b.world.template
        /\ prefixLog' = b.world.prefixLog
        /\ instanceLog' = b.world.instanceLog
        /\ surface' = [surface EXCEPT ![f] = b.surface]
        /\ bindings' = bindings \o Bind(b.world.heap, f)
        /\ captured' = [captured EXCEPT ![f] = b.captured]
  /\ setUp' = Append(setUp, f)
  /\ UNCHANGED <<clicks, design, designNodes>>

RECURSIVE RunHandlers(_, _, _, _)
\* jQuery runs the handlers bound to the clicked element in binding order.
RunHandlers(w, element, bound, i) ==
  IF i > Len(bound) THEN w
  ELSE RunHandlers(IF bound[i].element = element
                   THEN AddInstance(w, bound[i].form, surface[bound[i].form])
                   ELSE w,
                   element, bound, i + 1)

\* The user activates the add button of form f.
Click(f) ==
  /\ IsSetUp(f)
  /\ clicks[f] < MaxClicks
  /\ \E w \in {RunHandlers(World, surface[f].addButton, bindings, 1)} :
        /\ heap' = w.heap
        /\ template' = w.template
        /\ prefixLog' = w.prefixLog
        /\ instanceLog' = w.instanceLog
  /\ clicks' = [clicks EXCEPT ![f] = @ + 1]
  /\ UNCHANGED <<surface, bindings, setUp, design, designNodes, captured>>

Next ==
  \/ \E f \in Forms, prefix \in Seeds : multiForm(f, prefix)
  \/ \E f \in Forms : Click(f)

Spec == Init /\ [][Next]_vars

-----------------------------------------------------------------------------
(* Vocabulary of the properties.                                           *)

Has(h, n, a) == a \in DOMAIN h[n].attributes

\* The value of attribute a of node n, "" when it is absent.
Attr(h, n, a) == IF Has(h, n, a) THEN h[n].attributes[a] ELSE ""

NodesOf(h, n) == {Preorder(h, n)[i] : i \in 1..Len(Preorder(h, n))}

\* The nodes the Template of form f owns, in tree order.
Owned(f) == PreorderAll(heap, template[f].nodes, 1)

\* The nodes inside the i-th wrapper of form f, in tree order.
Inside(f, i) == PreorderAll(heap, heap[instanceLog[f][i]].childNodes, 1)

Numerals == <<"0", "1", "2", "3", "4", "5", "6", "7", "8", "9">>

\* The prefix the n-th call (n = 0, 1, ...) is expected to use for a seed.
ExpectedPrefix(seed, n) ==
  IF seed = Undefined \/ seed = Str("") THEN Numerals[n + 1] \o "-"
  ELSE seed.val \o "_" \o Numerals[n + 1] \o "-"

IsField(h, n) == h[n].nodeName \in FORM_ELEMENTS

IsLabel(h, n) == h[n].nodeName = "LABEL"

IsOther(h, n) == ~IsField(h, n) /\ ~IsLabel(h, n) /\ h[n].nodeName # "#text"

\* Form f is set up and is the only form of the page that is.
OnlyForm(f) == setUp = <<f>>

EmailDesign ==
  <<Elem("DIV", NoAttributes,
         <<Elem("LABEL", "for" :> "email", <<Text("Email")>>),
           Elem("INPUT", Email @@ ("type" :> "text"), <<>>)>>)>>

RECURSIVE Strip(_)
\* Markup without its id, name and for attributes.
Strip(tree) ==
  [nodeName |-> tree.nodeName,
   nodeValue |-> tree.nodeValue,
   attributes |-> [a \in (DOMAIN tree.attributes) \ {"id", "name", "for"} |->
                     tree.attributes[a]],
   childNodes |-> [i \in 1..Len(tree.childNodes) |-> Strip(tree.childNodes[i])]]

-----------------------------------------------------------------------------
(* Properties.                                                             *)

C3_PrefixOfEveryCall ==
  \A f \in Forms :
    /\ template[f].currentIteration = Len(prefixLog[f])
    /\ Len(instanceLog[f]) = Len(prefixLog[f])
    /\ \A n \in 1..Len(prefixLog[f]) :
         prefixLog[f][n] = ExpectedPrefix(template[f].prefix, n - 1)

\* "addr_0-", "addr_1-", "addr_2-" with the seed addr and "0-", "1-", "2-"
\* without a seed.
C3_Witness ==
  \E f, g \in Forms :
    /\ template[f].prefix = Str("addr")
    /\ prefixLog[f] = <<"addr_0-", "addr_1-", "addr_2-">>
    /\ template[g].prefix = Undefined
    /\ prefixLog[g] = <<"0-", "1-", "2-">>

\* C10: two forms on one page do not interfere: every form that is set up
\* holds one instance for its setup and one for each activation of its own
\* add button, and its Template counter has advanced as often.
C10_FormsDoNotInterfere ==
  \A f \in Forms : IsSetUp(f) =>
    /\ Len(instanceLog[f]) = clicks[f] + 1
    /\ template[f].currentIteration = clicks[f] + 1
    /\ Len(heap[ContainerNode(f)].childNodes) = clicks[f] + 2

\* C4: cloning never changes its input and allocates all of its output:
\* every node the Template captured is exactly as it was when the Template
\* was built, this.nodes is the same array, and the Template's nodes and the
\* nodes of the instances are pairwise disjoint sets, none of which existed
\* when the Template was built.
C4_CloneLeavesTemplateAlone ==
  \A f \in Forms : IsSetUp(f) =>
    LET before == captured[f].heap
        owned == PreorderAll(before, captured[f].nodes, 1)
    IN /\ template[f].nodes = captured[f].nodes
       /\ \A j \in 1..Len(owned) : heap[owned[j]] = before[owned[j]]
       /\ \A i \in 1..Len(instanceLog[f]) :
            LET made == NodesOf(heap, instanceLog[f][i])
            IN /\ \A n \in made : n > Len(before)
               /\ Cardinality(made) = Len(owned) + 1
               /\ \A k \in 1..Len(instanceLog[f]) :
                    k # i => made \cap NodesOf(heap, instanceLog[f][k]) = {}

\* Three instances of a template that holds elements and texts.
C4_Witness ==
  \E f \in Forms :
    /\ Len(instanceLog[f]) = 3
    /\ \E j \in 1..Len(Owned(f)) : heap[Owned(f)[j]].nodeName = "#text"
    /\ \E j \in 1..Len(Owned(f)) : IsField(heap, Owned(f)[j])

C6_FieldsArePrefixed ==
  \A f \in Forms : \A i \in 1..Len(instanceLog[f]) :
    /\ Len(Inside(f, i)) = Len(Owned(f))
    /\ \A j \in 1..Len(Owned(f)) :
         LET o == Owned(f)[j]
             c == Inside(f, i)[j]
         IN IsField(heap, o) =>
              /\ Has(heap, c, "id")
              /\ Attr(heap, c, "id") = prefixLog[f][i] \o Attr(heap, o, "id")
              /\ Has(heap, c, "name")
              /\ Attr(heap, c, "name") = prefixLog[f][i] \o Attr(heap, o, "name")

Identifiers(h, n) ==
  IF IsField(h, n)
  THEN {h[n].attributes[a] : a \in {"id", "name"} \cap DOMAIN h[n].attributes}
  ELSE IF IsLabel(h, n)
  THEN {h[n].attributes[a] : a \in {"for"} \cap DOMAIN h[n].attributes}
  ELSE {}

\* C2: two instances of one Template were built with distinct prefixes, and
\* no id or name of a field and no for-target of a label in one instance is
\* an id or name of a field or a for-target of a label in another instance.
C2_InstancesShareNoIdentifier ==
  \A f \in Forms : \A i, k \in 1..Len(instanceLog[f]) : i # k =>
    /\ prefixLog[f][i] # prefixLog[f][k]
    /\ \A m \in NodesOf(heap, instanceLog[f][i]) :
         \A n \in NodesOf(heap, instanceLog[f][k]) :
           Identifiers(heap, m) \cap Identifiers(heap, n) = {}

\* C8: every label's clone has for = prefix + the original for value, and
\* for every label of the template whose for-target is the id of an element
\* of the template, the cloned label's for-target is the id of that
\* element's clone in the same instance and no id in any other instance.
C8_LabelsFollowTheirTargets ==
  \A f \in Forms : \A i \in 1..Len(instanceLog[f]) :
    /\ Len(Inside(f, i)) = Len(Owned(f))
    /\ \A j \in 1..Len(Owned(f)) :
         LET o == Owned(f)[j]
             c == Inside(f, i)[j]
         IN IsLabel(heap, o) =>
              /\ Attr(heap, c, "for")
                   = prefixLog[f][i] \o (IF Has(heap, o, "for")
                                         THEN Attr(heap, o, "for") ELSE "null")
              /\ \A k \in 1..Len(Owned(f)) :
                   ( /\ Has(heap, o, "for")
                     /\ Has(heap, Owned(f)[k], "id")
                     /\ Attr(heap, Owned(f)[k], "id") = Attr(heap, o, "for") ) =>
                     /\ Attr(heap, Inside(f, i)[k], "id") = Attr(heap, c, "for")
                     /\ \A i2 \in 1..Len(instanceLog[f]) : i2 # i =>
                          \A m \in NodesOf(heap, instanceLog[f][i2]) :
                            Has(heap, m, "id") =>
                              Attr(heap, m, "id") # Attr(heap, c, "for")

\* C8 as amended: the same, for the labels whose for-target is the non-empty
\* id of an element of the template that is not a label, and with respect to
\* the ids of the elements of the other instances that are not labels.
C8_LabelsFollowLabelableTargets ==
  \A f \in Forms : \A i \in 1..Len(instanceLog[f]) :
    /\ Len(Inside(f, i)) = Len(Owned(f))
    /\ \A j \in 1..Len(Owned(f)) :
         LET o == Owned(f)[j]
             c == Inside(f, i)[j]
         IN IsLabel(heap, o) =>
              /\ Attr(heap, c, "for")
                   = prefixLog[f][i] \o (IF Has(heap, o, "for")
                                         THEN Attr(heap, o, "for") ELSE "null")
              /\ \A k \in 1..Len(Owned(f)) :
                   ( /\ Attr(heap, o, "for") # ""
                     /\ ~IsLabel(heap, Owned(f)[k])
                     /\ Attr(heap, Owned(f)[k], "id") = Attr(heap, o, "for") ) =>
                     /\ Attr(heap, Inside(f, i)[k], "id") = Attr(heap, c, "for")
                     /\ \A i2 \in 1..Len(instanceLog[f]) : i2 # i =>
                          \A m \in NodesOf(heap, instanceLog[f][i2]) :
                            (Has(heap, m, "id") /\ ~IsLabel(heap, m)) =>
                              Attr(heap, m, "id") # Attr(heap, c, "for")

\* label[for=email] and input[id=email] in two instances: the second
\* instance pairs for "1-email" with id "1-email".
C8_Witness ==
  \E f \in Forms : \E j, k \in 1..Len(Owned(f)) :
    /\ Len(instanceLog[f]) >= 2
    /\ prefixLog[f][2] = "1-"
    /\ Len(Inside(f, 2)) = Len(Owned(f))
    /\ IsLabel(heap, Owned(f)[j]) /\ Attr(heap, Owned(f)[j], "for") = "email"
    /\ heap[Owned(f)[k]].nodeName = "INPUT"
    /\ Attr(heap, Owned(f)[k], "id") = "email"
    /\ Attr(heap, Inside(f, 2)[j], "for") = "1-email"
    /\ Attr(heap, Inside(f, 2)[k], "id") = "1-email"

\* C9: when new Template returns, this.nodes holds the design-time markup of
\* the container, node for node in the original order and unprefixed, in
\* nodes of its own, and the container holds none of its children; from then
\* on no design-time node is anywhere inside the container.
C9_TemplateDetachesDesign ==
  \A f \in Forms : IsSetUp(f) =>
    LET before == captured[f].heap
        original == PreorderAll(before, designNodes[f], 1)
        copies == PreorderAll(before, captured[f].nodes, 1)
    IN /\ TreesOf(before, captured[f].nodes) = design[f]
       /\ TreesOf(before, designNodes[f]) = design[f]
       /\ before[ContainerNode(f)].childNodes = <<>>
       /\ \A j \in 1..Len(original) : \A k \in 1..Len(copies) :
            original[j] # copies[k]
       /\ \A j \in 1..Len(original) :
            original[j] \notin NodesOf(heap, ContainerNode(f))

\* A container designed with three top-level nodes, set up and added to.
C9_Witness ==
  \E f \in Forms :
    /\ IsSetUp(f)
    /\ Len(design[f]) = 3
    /\ Len(designNodes[f]) = 3
    /\ clicks[f] >= 1
    /\ Len(heap[ContainerNode(f)].childNodes) >= 3

====
